---- MODULE Spec2Model ----
(***************************************************************************)
(* Model of mcp_server_cloud.py: the in-memory idea registry IDEAS_DB and  *)
(* the tools and resources that read and append to it, plus the pure tool  *)
(* count_letter_r.                                                         *)
(*                                                                         *)
(* A Python str is a sequence of one-character strings.  Literal pieces of *)
(* the f-strings are kept as single tokens of such a sequence.             *)
(***************************************************************************)
EXTENDS Integers, Sequences, FiniteSets, TLC

VARIABLES IDEAS_DB, now, tsBefore, op, arg, ret, wr, rd

vars == <<IDEAS_DB, now, tsBefore, op, arg, ret, wr, rd>>

(* ------------------------------ bounds --------------------------------- *)

\* largest registry the model builds (the code sets no maximum)
MaxIdeas == 2
\* last instant of the modelled wall clock, in ticks
MaxClock == 2
\* sub-second resolution of the modelled clock (the code's is microseconds)
TicksPerSec == 2
\* longest generated input of count_letter_r
MaxTextLen == 4

(* ------------------------------ inputs --------------------------------- *)

\* (title, description, author) triples given to add_idea: two titles that
\* differ only in case, one of them twice with different descriptions, and a
\* title that is a substring of the others
IdeaInputs ==
    { <<<<"A", "b">>, <<>>, <<"M">>>>,
      <<<<"A", "b">>, <<"B", "a">>, <<"b">>>>,
      <<<<"a", "B">>, <<"B", "a">>, <<"M">>>>,
      <<<<"a", "B">>, <<>>, <<"b">>>>,
      <<<<"b">>, <<>>, <<"b">>>>,
      <<<<"b">>, <<"B", "a">>, <<"M">>>> }
Keywords == {<<>>, <<"a">>, <<"B">>, <<"b", "A">>, <<"A", "B">>, <<"Z">>}
QueryTitles == {<<"A", "b">>, <<"a", "B">>, <<"b">>, <<"A", "B">>, <<"Z">>, <<>>}

RChars == {"r", "R", "o"}
Programmer == <<"P", "r", "o", "g", "r", "a", "m", "m", "e", "r">>

RECURSIVE StrsOfLen(_, _)
StrsOfLen(chars, n) ==
    IF n = 0 THEN {<<>>}
    ELSE {Append(s, c) : s \in StrsOfLen(chars, n - 1), c \in chars}

Texts == UNION {StrsOfLen(RChars, n) : n \in 0..MaxTextLen} \cup {Programmer}

(* --------------------------- str operations ---------------------------- *)

\* str.lower() on one character
LowerChar(c) ==
    CASE c = "A" -> "a"
      [] c = "B" -> "b"
      [] c = "M" -> "m"
      [] c = "P" -> "p"
      [] c = "R" -> "r"
      [] c = "Z" -> "z"
      [] OTHER -> c

\* str.lower()
Lower(s) == [i \in 1..Len(s) |-> LowerChar(s[i])]

\* sub in s: scan the start positions left to right
RECURSIVE InFrom(_, _, _)
InFrom(sub, s, start) ==
    IF start + Len(sub) > Len(s) THEN FALSE
    ELSE IF SubSeq(s, start + 1, start + Len(sub)) = sub THEN TRUE
    ELSE InFrom(sub, s, start + 1)

In(sub, s) == InFrom(sub, s, 0)

\* s.count(c) for a one-character c
RECURSIVE Count(_, _)
Count(s, c) ==
    IF s = <<>> THEN 0
    ELSE (IF Head(s) = c THEN 1 ELSE 0) + Count(Tail(s), c)

(* ------------------------------ clock ---------------------------------- *)

DigitStr(n) ==
    CASE n = 0 -> "0" [] n = 1 -> "1" [] n = 2 -> "2" [] n = 3 -> "3"
      [] n = 4 -> "4" [] n = 5 -> "5" [] n = 6 -> "6" [] n = 7 -> "7"
      [] n = 8 -> "8" [] n = 9 -> "9"

\* datetime.isoformat(): the fraction is left out when it is zero
Isoformat(t) ==
    IF t % TicksPerSec = 0
    THEN <<DigitStr(t \div TicksPerSec)>>
    ELSE <<DigitStr(t \div TicksPerSec), ".", DigitStr(t % TicksPerSec)>>

(* ----------------------------- the tools ------------------------------- *)

IdeaFields == {"title", "description", "author", "created_at"}

\* variant: the timestamp is rendered to whole seconds
NewIdeaWholeSeconds(title, description, author, t) ==
    [title |-> title, description |-> description, author |-> author,
     created_at |-> <<DigitStr(t \div TicksPerSec)>>]

\* the dict literal of add_idea
NewIdea(title, description, author, t) ==
    [title |-> title, description |-> description, author |-> author,
     created_at |-> Isoformat(t)]

AddConfirmation(title, author) ==
    <<"Idea registered: '">> \o title \o <<"' by ">> \o author

\* variant: only the title is searched
FindMatchesTitleOnly(idea, keyword) == In(Lower(keyword), Lower(idea.title))

\* the condition of find_idea's comprehension
FindMatches(idea, keyword) ==
    \/ In(Lower(keyword), Lower(idea.title))
    \/ In(Lower(keyword), Lower(idea.description))

\* the list comprehension of find_idea over a registry db
RECURSIVE FindResults(_, _)
FindResults(db, keyword) ==
    IF db = <<>> THEN <<>>
    ELSE (IF FindMatches(Head(db), keyword) THEN <<Head(db)>> ELSE <<>>)
         \o FindResults(Tail(db), keyword)

\* variant: the comparison is case-sensitive
DetailMatchesExact(idea, title) == idea.title = title

\* the condition of idea_detail's loop
DetailMatches(idea, title) == Lower(idea.title) = Lower(title)

DetailText(idea) ==
    <<"Idea: ">> \o idea.title \o <<"\nDescription: ">> \o idea.description
    \o <<"\nAuthor: ">> \o idea.author \o <<"\nDate: ">> \o idea.created_at

\* variant: the lower-cased title is embedded
NotFoundTextLowered(title) ==
    <<"No idea found with the title '">> \o Lower(title) \o <<"'.">>

NotFoundText(title) == <<"No idea found with the title '">> \o title \o <<"'.">>

\* variant: the loop keeps going and the last match wins
RECURSIVE DetailResultLast(_, _)
DetailResultLast(db, title) ==
    IF db = <<>> THEN NotFoundText(title)
    ELSE IF DetailMatches(db[Len(db)], title) THEN DetailText(db[Len(db)])
    ELSE DetailResultLast(SubSeq(db, 1, Len(db) - 1), title)

\* the for loop of idea_detail over a registry db
RECURSIVE DetailResult(_, _)
DetailResult(db, title) ==
    IF db = <<>> THEN NotFoundText(title)
    ELSE IF DetailMatches(Head(db), title) THEN DetailText(Head(db))
    ELSE DetailResult(Tail(db), title)

\* variant: the text is not lower-cased first
CountLetterRCaseSensitive(text) == Count(text, "r")

\* count_letter_r
CountLetterR(text) == Count(Lower(text), "r")

(* ------------------- sequential calls (one at a time) ------------------ *)

NoArg == <<>>
NoIdea == [title |-> <<>>, description |-> <<>>, author |-> <<>>, created_at |-> <<>>]
IdleWr == [pc |-> "idle", idea |-> NoIdea]
IdleRd == [pc |-> "idle", call |-> "none", arg |-> <<>>, i |-> 0, results |-> <<>>,
           startLen |-> 0, endLen |-> 0, ret |-> <<>>]

Init ==
    /\ IDEAS_DB = <<>>
    /\ now = 0
    /\ tsBefore = 0
    /\ op = "init"
    /\ arg = NoArg
    /\ ret = <<>>
    /\ wr = IdleWr
    /\ rd = IdleRd

\* the wall clock advances between calls
Tick ==
    /\ now < MaxClock
    /\ now' = now + 1
    /\ UNCHANGED <<IDEAS_DB, tsBefore, op, arg, ret, wr, rd>>

\* variant: a title already registered is refused
add_idea_unique(title, description, author, dt) ==
    /\ Len(IDEAS_DB) < MaxIdeas
    /\ now + dt <= MaxClock
    /\ tsBefore' = now
    /\ now' = now + dt
    /\ IF \E i \in 1..Len(IDEAS_DB) : IDEAS_DB[i].title = title
       THEN /\ IDEAS_DB' = IDEAS_DB
            /\ ret' = <<"Idea already registered: '">> \o title \o <<"'">>
       ELSE /\ IDEAS_DB' = Append(IDEAS_DB, NewIdea(title, description, author, now'))
            /\ ret' = AddConfirmation(title, author)
    /\ op' = "add_idea"
    /\ arg' = <<title, description, author>>
    /\ UNCHANGED <<wr, rd>>

\* add_idea, called right after the caller read the clock (tsBefore);
\* dt is the time that passes before the call reads the clock itself
add_idea(title, description, author, dt) ==
    /\ Len(IDEAS_DB) < MaxIdeas
    /\ now + dt <= MaxClock
    /\ tsBefore' = now
    /\ now' = now + dt
    /\ IDEAS_DB' = Append(IDEAS_DB, NewIdea(title, description, author, now'))
    /\ op' = "add_idea"
    /\ arg' = <<title, description, author>>
    /\ ret' = AddConfirmation(title, author)
    /\ UNCHANGED <<wr, rd>>

\* variant: the newest idea is listed first
list_ideas_sorting ==
    /\ op' = "list_ideas"
    /\ arg' = NoArg
    /\ IDEAS_DB' = [i \in 1..Len(IDEAS_DB) |-> IDEAS_DB[Len(IDEAS_DB) + 1 - i]]
    /\ ret' = IDEAS_DB'
    /\ UNCHANGED <<now, tsBefore, wr, rd>>

list_ideas ==
    /\ op' = "list_ideas"
    /\ arg' = NoArg
    /\ ret' = IDEAS_DB
    /\ UNCHANGED <<IDEAS_DB, now, tsBefore, wr, rd>>

\* variant: the registry itself is filtered
find_idea_in_place(keyword) ==
    /\ op' = "find_idea"
    /\ arg' = <<keyword>>
    /\ ret' = FindResults(IDEAS_DB, keyword)
    /\ IDEAS_DB' = ret'
    /\ UNCHANGED <<now, tsBefore, wr, rd>>

find_idea(keyword) ==
    /\ op' = "find_idea"
    /\ arg' = <<keyword>>
    /\ ret' = FindResults(IDEAS_DB, keyword)
    /\ UNCHANGED <<IDEAS_DB, now, tsBefore, wr, rd>>

idea_detail(title) ==
    /\ op' = "idea_detail"
    /\ arg' = <<title>>
    /\ ret' = DetailResult(IDEAS_DB, title)
    /\ UNCHANGED <<IDEAS_DB, now, tsBefore, wr, rd>>

Next ==
    \/ Tick
    \/ \E in \in IdeaInputs, dt \in 0..1 : add_idea(in[1], in[2], in[3], dt)
    \/ list_ideas
    \/ \E k \in Keywords : find_idea(k)
    \/ \E t \in QueryTitles : idea_detail(t)

Spec == Init /\ [][Next]_vars

(* ------------------------- count_letter_r alone ------------------------ *)

InitCount ==
    /\ IDEAS_DB = <<>>
    /\ now = 0
    /\ tsBefore = 0
    /\ op = "init"
    /\ arg \in {<<text>> : text \in Texts}
    /\ ret = <<>>
    /\ wr = IdleWr
    /\ rd = IdleRd

count_letter_r ==
    /\ op = "init"
    /\ op' = "count_letter_r"
    /\ ret' = CountLetterR(arg[1])
    /\ UNCHANGED <<IDEAS_DB, now, tsBefore, arg, wr, rd>>

NextCount == count_letter_r

SpecCount == InitCount /\ [][NextCount]_vars

(* ------- concurrent calls: one add_idea thread and one read thread, ----- *)
(* ------- interleaved statement by statement, no lock ------------------- *)

\* inputs of the concurrent calls
ConcIdeaInputs ==
    { <<<<"A", "b">>, <<>>, <<"M">>>>,
      <<<<"a", "B">>, <<"B", "a">>, <<"b">>>>,
      <<<<"b">>, <<>>, <<"b">>>> }
ConcKeywords == {<<>>, <<"b", "A">>, <<"A">>}
ConcQueryTitles == {<<"A", "B">>, <<"b">>, <<"Z">>}

\* lines 33-38: the dict is built, complete, in the local variable idea
add_idea_L33(title, description, author) ==
    /\ wr.pc = "idle"
    /\ Len(IDEAS_DB) < MaxIdeas
    /\ wr' = [pc |-> "L39", idea |-> NewIdea(title, description, author, now)]
    /\ UNCHANGED <<IDEAS_DB, now, tsBefore, op, arg, ret, rd>>

\* variant: the new idea is put in front
add_idea_L39_insert_front ==
    /\ wr.pc = "L39"
    /\ IDEAS_DB' = <<wr.idea>> \o IDEAS_DB
    /\ wr' = [wr EXCEPT !.pc = "L40"]
    /\ UNCHANGED <<now, tsBefore, op, arg, ret, rd>>

\* line 39: IDEAS_DB.append(idea), one list operation
add_idea_L39 ==
    /\ wr.pc = "L39"
    /\ IDEAS_DB' = Append(IDEAS_DB, wr.idea)
    /\ wr' = [wr EXCEPT !.pc = "L40"]
    /\ UNCHANGED <<now, tsBefore, op, arg, ret, rd>>

\* line 40: the call returns and its locals are gone
add_idea_L40 ==
    /\ wr.pc = "L40"
    /\ wr' = IdleWr
    /\ UNCHANGED <<IDEAS_DB, now, tsBefore, op, arg, ret, rd>>

RdFree == rd.pc \in {"idle", "done"}

\* line 48: the list is returned
list_ideas_L48 ==
    /\ RdFree
    /\ rd' = [pc |-> "done", call |-> "list_ideas", arg |-> NoArg, i |-> 0,
              results |-> <<>>, startLen |-> Len(IDEAS_DB),
              endLen |-> Len(IDEAS_DB), ret |-> IDEAS_DB]
    /\ UNCHANGED <<IDEAS_DB, now, tsBefore, op, arg, ret, wr>>

\* line 69: the comprehension starts with an iterator at index 0
find_idea_L69(keyword) ==
    /\ RdFree
    /\ rd' = [pc |-> "L70", call |-> "find_idea", arg |-> <<keyword>>, i |-> 0,
              results |-> <<>>, startLen |-> Len(IDEAS_DB), endLen |-> 0,
              ret |-> <<>>]
    /\ UNCHANGED <<IDEAS_DB, now, tsBefore, op, arg, ret, wr>>

\* lines 70-71: one turn of the comprehension; the iterator reads the list's
\* current length each turn
find_idea_L70 ==
    /\ rd.pc = "L70"
    /\ IF rd.i < Len(IDEAS_DB)
       THEN LET idea == IDEAS_DB[rd.i + 1]
            IN rd' = [rd EXCEPT !.i = rd.i + 1,
                                !.results = IF FindMatches(idea, rd.arg[1])
                                            THEN Append(rd.results, idea)
                                            ELSE rd.results]
       ELSE rd' = [rd EXCEPT !.pc = "L73"]
    /\ UNCHANGED <<IDEAS_DB, now, tsBefore, op, arg, ret, wr>>

\* line 73: results is returned
find_idea_L73 ==
    /\ rd.pc = "L73"
    /\ rd' = [rd EXCEPT !.pc = "done", !.ret = rd.results, !.results = <<>>,
                        !.i = 0, !.endLen = Len(IDEAS_DB)]
    /\ UNCHANGED <<IDEAS_DB, now, tsBefore, op, arg, ret, wr>>

\* line 110: the for loop starts with an iterator at index 0
idea_detail_L110(title) ==
    /\ RdFree
    /\ rd' = [pc |-> "L111", call |-> "idea_detail", arg |-> <<title>>, i |-> 0,
              results |-> <<>>, startLen |-> Len(IDEAS_DB), endLen |-> 0,
              ret |-> <<>>]
    /\ UNCHANGED <<IDEAS_DB, now, tsBefore, op, arg, ret, wr>>

\* lines 110-118: one turn of the loop, or the return after the last turn
idea_detail_L111 ==
    /\ rd.pc = "L111"
    /\ IF rd.i < Len(IDEAS_DB)
       THEN LET idea == IDEAS_DB[rd.i + 1]
            IN IF DetailMatches(idea, rd.arg[1])
               THEN rd' = [rd EXCEPT !.pc = "done", !.ret = DetailText(idea),
                                     !.i = 0, !.endLen = Len(IDEAS_DB)]
               ELSE rd' = [rd EXCEPT !.i = rd.i + 1]
       ELSE rd' = [rd EXCEPT !.pc = "done", !.ret = NotFoundText(rd.arg[1]),
                             !.i = 0, !.endLen = Len(IDEAS_DB)]
    /\ UNCHANGED <<IDEAS_DB, now, tsBefore, op, arg, ret, wr>>

NextConc ==
    \/ Tick
    \/ \E in \in ConcIdeaInputs : add_idea_L33(in[1], in[2], in[3])
    \/ add_idea_L39
    \/ add_idea_L40
    \/ list_ideas_L48
    \/ \E k \in ConcKeywords : find_idea_L69(k)
    \/ find_idea_L70
    \/ find_idea_L73
    \/ \E t \in ConcQueryTitles : idea_detail_L110(t)
    \/ idea_detail_L111

\* the dispatcher keeps invoking tools and every started call keeps running
SpecConc == Init /\ [][NextConc]_vars /\ WF_vars(NextConc)

(* ------------------------ properties: sequential ----------------------- *)

Last(s) == s[Len(s)]
IsPrefix(s, t) == Len(s) <= Len(t) /\ SubSeq(t, 1, Len(s)) = s
HasUpper(s) == Lower(s) # s

\* the instant a created_at string denotes (what datetime.fromisoformat reads)
DigitVal(d) == CHOOSE n \in 0..9 : DigitStr(n) = d
FromIsoformat(s) ==
    DigitVal(s[1]) * TicksPerSec + (IF Len(s) = 3 THEN DigitVal(s[3]) ELSE 0)

AnyAdd == \E in \in IdeaInputs, dt \in 0..1 : add_idea(in[1], in[2], in[3], dt)
AnyRead ==
    \/ list_ideas
    \/ \E k \in Keywords : find_idea(k)
    \/ \E t \in QueryTitles : idea_detail(t)

\* C1: add_idea is possible for every input triple in every registry state
\* (below the model's size cap), and every add_idea call lengthens the registry
\* by exactly one and returns the confirmation text, also when the same triple
\* was added before.
C1_AddAlwaysAppendsOne ==
    /\ [](Len(IDEAS_DB) < MaxIdeas =>
            \A in \in IdeaInputs : ENABLED add_idea(in[1], in[2], in[3], 0))
    /\ [][\A in \in IdeaInputs, dt \in 0..1 :
            add_idea(in[1], in[2], in[3], dt) =>
                /\ Len(IDEAS_DB') = Len(IDEAS_DB) + 1
                /\ ret' = <<"Idea registered: '">> \o in[1] \o <<"' by ">> \o in[3]]_vars

\* an add_idea call has just appended a triple the registry already ended with
C1_Witness ==
    /\ op = "add_idea"
    /\ Len(IDEAS_DB) >= 2
    /\ \A f \in {"title", "description", "author"} :
          IDEAS_DB[Len(IDEAS_DB)][f] = IDEAS_DB[Len(IDEAS_DB) - 1][f]

\* C2: list_ideas called after add_idea(title, description, author) returns a
\* sequence whose last element has that title, description and author and a
\* created_at that reads as no earlier than the clock value taken right
\* before the add_idea call.
C2_AddThenList ==
    [][(op = "add_idea" /\ list_ideas) =>
          /\ ret' # <<>>
          /\ Last(ret').title = arg[1]
          /\ Last(ret').description = arg[2]
          /\ Last(ret').author = arg[3]
          /\ FromIsoformat(Last(ret').created_at) >= tsBefore]_vars

\* list_ideas after an add_idea that was called at a fractional instant
C2_Witness ==
    /\ op = "list_ideas"
    /\ Len(ret) >= 2
    /\ tsBefore % TicksPerSec # 0
    /\ FromIsoformat(Last(ret).created_at) > tsBefore

\* the indices of the ideas whose lower-cased title or description has the
\* lower-cased keyword as a contiguous piece
Contains(s, k) == \E i \in 1..(Len(s) + 1), j \in 0..Len(s) : SubSeq(s, i, j) = k
MatchingIndices(db, keyword) ==
    {i \in 1..Len(db) : \/ Contains(Lower(db[i].title), Lower(keyword))
                        \/ Contains(Lower(db[i].description), Lower(keyword))}
NthOf(S, j) == CHOOSE i \in S : Cardinality({x \in S : x < i}) = j - 1

\* C3: find_idea(keyword) returns exactly the registered ideas whose
\* lower-cased title or description contains the lower-cased keyword, in
\* insertion order, each once; the empty keyword returns every idea.
C3_FindIsStableFilter ==
    op = "find_idea" =>
        LET M == MatchingIndices(IDEAS_DB, arg[1])
        IN /\ ret = [j \in 1..Cardinality(M) |-> IDEAS_DB[NthOf(M, j)]]
           /\ (arg[1] = <<>> => ret = IDEAS_DB)

\* find_idea returned an idea matched by its description only, across a case
\* difference, and left another idea out
C3_Witness ==
    /\ op = "find_idea"
    /\ arg[1] = <<"b", "A">>
    /\ Len(ret) = 1
    /\ Len(IDEAS_DB) = 2
    /\ ret[1] = IDEAS_DB[2]

TitleMatchIndices(db, title) == {i \in 1..Len(db) : Lower(db[i].title) = Lower(title)}
Min(S) == CHOOSE i \in S : \A x \in S : i <= x

\* C4: when some registered title equals the queried title ignoring case,
\* idea_detail returns the text built from the four fields of the first such
\* idea in insertion order.
C4_DetailFirstMatch ==
    (op = "idea_detail" /\ TitleMatchIndices(IDEAS_DB, arg[1]) # {}) =>
        LET idea == IDEAS_DB[Min(TitleMatchIndices(IDEAS_DB, arg[1]))]
        IN ret = <<"Idea: ">> \o idea.title \o <<"\nDescription: ">> \o idea.description
                 \o <<"\nAuthor: ">> \o idea.author \o <<"\nDate: ">> \o idea.created_at

\* idea_detail was asked for a title in another case than stored, with two
\* different ideas matching it
C4_Witness ==
    /\ op = "idea_detail"
    /\ Cardinality(TitleMatchIndices(IDEAS_DB, arg[1])) >= 2
    /\ \A i \in 1..Len(IDEAS_DB) : IDEAS_DB[i].title # arg[1]
    /\ IDEAS_DB[1].description # IDEAS_DB[2].description

\* C5: when no registered title equals the queried title ignoring case,
\* idea_detail returns the not-found text with the queried title embedded
\* as given, and no idea_detail call changes the registry.
C5_DetailNotFound ==
    /\ []((op = "idea_detail" /\ TitleMatchIndices(IDEAS_DB, arg[1]) = {}) =>
            ret = <<"No idea found with the title '">> \o arg[1] \o <<"'.">>)
    /\ [][(\E t \in QueryTitles : idea_detail(t)) => IDEAS_DB' = IDEAS_DB]_vars

\* idea_detail was asked, on a non-empty registry, for an upper-case title
\* that no idea has
C5_Witness ==
    /\ op = "idea_detail"
    /\ IDEAS_DB # <<>>
    /\ HasUpper(arg[1])
    /\ TitleMatchIndices(IDEAS_DB, arg[1]) = {}

\* C6: every step leaves the registry of before as a prefix of the registry
\* of after: no idea is removed, moved or changed.
C6_AppendOnly == [][IsPrefix(IDEAS_DB, IDEAS_DB')]_vars

\* a read was made on a registry of two ideas
C6_Witness ==
    /\ Len(IDEAS_DB) >= 2
    /\ op \in {"list_ideas", "find_idea", "idea_detail"}

\* C7: list_ideas, find_idea and idea_detail leave the registry as it was,
\* and every step that changes the registry is an add_idea call.
C7_ReadsChangeNothing ==
    /\ [][AnyRead => IDEAS_DB' = IDEAS_DB]_vars
    /\ [][IDEAS_DB' # IDEAS_DB => AnyAdd]_vars

\* find_idea returned fewer ideas than the registry holds
C7_Witness ==
    /\ op = "find_idea"
    /\ Len(ret) < Len(IDEAS_DB)

\* C10: a title that idea_detail finds is answered with the same text after
\* every further step.
C10_DetailStable ==
    [][\A t \in QueryTitles :
          TitleMatchIndices(IDEAS_DB, t) # {} =>
              DetailResult(IDEAS_DB', t) = DetailResult(IDEAS_DB, t)]_vars

\* idea_detail answered with the first idea although a later, different idea
\* has the same title ignoring case
C10_Witness ==
    /\ op = "idea_detail"
    /\ Len(IDEAS_DB) >= 2
    /\ ret = DetailText(IDEAS_DB[1])
    /\ Lower(IDEAS_DB[2].title) = Lower(arg[1])
    /\ IDEAS_DB[2] # IDEAS_DB[1]

(* ------------------------ properties: count_letter_r ------------------- *)

RPositions(text) == {i \in 1..Len(text) : text[i] \in {"r", "R"}}

\* C8 (as written): count_letter_r("Programmer") is 2.
C8_ProgrammerIsTwo ==
    (op = "count_letter_r" /\ arg[1] = Programmer) => ret = 2

\* C8 (amended): count_letter_r(text) is the number of positions of text that
\* hold r or R, and count_letter_r("Programmer") is 3.
C8_ProgrammerIsThree ==
    op = "count_letter_r" =>
        /\ ret = Cardinality(RPositions(arg[1]))
        /\ (arg[1] = Programmer => ret = 3)

\* count_letter_r was applied to "Programmer"
C8_Witness == op = "count_letter_r" /\ arg[1] = Programmer

(* ------------------------ properties: concurrent ----------------------- *)

\* what a call returns when it runs alone on the registry db
AloneResult(call, a, db) ==
    CASE call = "list_ideas" -> db
      [] call = "find_idea" -> FindResults(db, a[1])
      [] call = "idea_detail" -> DetailResult(db, a[1])

\* some registry entry lacks a field, or a finished read returned what no
\* registry between its start and its end gives: neither the registry before
\* an overlapping append nor the one after it
PartialObserved ==
    \/ \E i \in 1..Len(IDEAS_DB) : DOMAIN IDEAS_DB[i] # IdeaFields
    \/ /\ rd.pc = "done"
       /\ \A k \in rd.startLen..rd.endLen :
             rd.ret # AloneResult(rd.call, rd.arg, SubSeq(IDEAS_DB, 1, k))

====
